---------------------------- MODULE Spec2Model ----------------------------
(***************************************************************************)
(* Model of the two EPUB modifiers of this repository:                     *)
(*   interactive_epub_modifier.py  (menu driven session)                   *)
(*   modify_epub_margins.py        (command-line tool)                     *)
(*                                                                         *)
(* Text (file content, user input, command-line arguments, file names) is  *)
(* a sequence of string tokens; a token stands for the run of characters   *)
(* written in it.  A ZIP archive is a sequence of entries in the order     *)
(* they were written, an extracted directory tree is a function from       *)
(* entry names to file content, and an entry name is the tuple of its      *)
(* path components.                                                        *)
(***************************************************************************)
EXTENDS Integers, Sequences, FiniteSets, TLC

VARIABLES
    tool,               \* which program runs: "interactive", "cli", "transform"
    pc,                 \* position of main()
    fs,                 \* the files of the file system: path -> archive file
    dirs,               \* the directories made in the working directory
    argv,               \* sys.argv[1:]
    argi,               \* main (command line): i
    epub_files,         \* main: epub_files
    modification_type,  \* main: modification_type
    margin_size,        \* main: margin_size
    output_mode,        \* main: output_mode
    selected_files,     \* main: selected_files (command line: unique_files)
    todo,               \* the part of the batch loop's list not yet visited
    success_count,      \* main: success_count
    exit_code,          \* the status the process ended with
    read,               \* the line the last step read with input(), and where
    gate,               \* the lines that confirmed, in this pass of `while True`
    batches,            \* number of batch loops started by this process
    fs0,                \* the files as they were when the batch loop started
    log,                \* the batch loop's passes so far: file, walk order, outcome
    session             \* the files at the start of the process, the output
                        \* modes the interactive session has written in, and
                        \* per path the fragment written last

vars == << tool, pc, fs, dirs, argv, argi, epub_files, modification_type,
           margin_size, output_mode, selected_files, todo, success_count,
           exit_code, read, gate, batches, fs0, log, session >>

None == "None"

-----------------------------------------------------------------------------
(* Bounds of the model.                                                    *)

\* how many batches one interactive session may run
MaxBatches == 2
\* how many times the transform is applied in place to one archive
MaxApply == 2
\* how many command-line arguments are given
MaxArgs == 2

-----------------------------------------------------------------------------
(* Sequences and text.                                                     *)

Range(s) == { s[i] : i \in DOMAIN s }

RECURSIVE Perms(_)
Perms(S) ==
    IF S = {} THEN { <<>> }
    ELSE UNION { { <<x>> \o p : p \in Perms(S \ {x}) } : x \in S }

RECURSIVE Flatten(_)
Flatten(ss) == IF ss = <<>> THEN <<>> ELSE Head(ss) \o Flatten(Tail(ss))

EndsWith(s, t) ==
    /\ Len(s) >= Len(t)
    /\ SubSeq(s, Len(s) - Len(t) + 1, Len(s)) = t

\* Python's `t in s` on strings
Contains(s, t) ==
    \E i \in 0 .. (Len(s) - Len(t)) : SubSeq(s, i + 1, i + Len(t)) = t

DigitChar == << "0", "1", "2", "3", "4", "5", "6", "7", "8", "9" >>

RECURSIVE Digits(_)
Digits(n) ==
    IF n < 10 THEN << DigitChar[n + 1] >>
    ELSE Digits(n \div 10) \o << DigitChar[(n % 10) + 1] >>

\* str(n) for an integer n, as used by the f-strings and by str(len(...) + 1)
Str(n) == IF n < 0 THEN << "-" >> \o Digits(-n) ELSE Digits(n)


-----------------------------------------------------------------------------
(* The generated CSS.  Each token is a literal piece of the source's       *)
(* (f-)string; the interpolated {margin_size} is Str(margin_size).         *)

DefaultMargin == 20

get_margin_css(size) ==
    << "\n", "/* margins for Kindle */\n", "html, body {\n",
       "    margin-left: -" >> \o Str(size) \o << "px !important;\n",
       "    margin-right: -" >> \o Str(size) \o << "px !important;\n",
       "    padding: 0 !important;\n", "}\n" >>

get_no_hyphenation_css ==
    << "\n", "/* no hyphenation for Kindle */\n", "* {\n",
       "    -webkit-hyphens: none !important;\n",
       "    -moz-hyphens: none !important;\n",
       "    -ms-hyphens: none !important;\n",
       "    hyphens: none !important;\n",
       "    word-break: keep-all !important;\n",
       "    overflow-wrap: normal !important;\n", "}\n",
       "\n", "p, div, span, td, th {\n",
       "    -webkit-hyphens: none !important;\n",
       "    -moz-hyphens: none !important;\n",
       "    -ms-hyphens: none !important;\n",
       "    hyphens: none !important;\n",
       "    word-break: keep-all !important;\n", "}\n" >>

get_combined_css(size) ==
    << "\n", "/* margins for Kindle */\n", "html, body {\n",
       "    margin-left: -" >> \o Str(size) \o << "px !important;\n",
       "    margin-right: -" >> \o Str(size) \o << "px !important;\n",
       "    padding: 0 !important;\n", "}\n",
       "\n", "/* no hyphenation for Kindle */\n", "* {\n",
       "    -webkit-hyphens: none !important;\n",
       "    -moz-hyphens: none !important;\n",
       "    -ms-hyphens: none !important;\n",
       "    hyphens: none !important;\n",
       "    word-break: keep-all !important;\n",
       "    overflow-wrap: normal !important;\n", "}\n",
       "\n", "p, div, span, td, th {\n",
       "    -webkit-hyphens: none !important;\n",
       "    -moz-hyphens: none !important;\n",
       "    -ms-hyphens: none !important;\n",
       "    hyphens: none !important;\n",
       "    word-break: keep-all !important;\n", "}\n" >>

\* process_epub, lines 114-123: the CSS for the modification type
css_content(mtype, size) ==
    CASE mtype = "margins" -> get_margin_css(size)
      [] mtype = "hyphens" -> get_no_hyphenation_css
      [] mtype = "both"    -> get_combined_css(size)

-----------------------------------------------------------------------------
(* Archives.                                                               *)

STORED   == "ZIP_STORED"
DEFLATED == "ZIP_DEFLATED"

mimetype == << "mimetype" >>

possible_paths ==
    << << "OPS", "style.css" >>, << "OEBPS", "style.css" >>,
       << "styles", "style.css" >>, << "css", "style.css" >> >>

placeholder_css == << "/* auto-created CSS */\n" >>

\* a file that is no ZIP archive
Corrupt == [ valid |-> FALSE, entries |-> <<>> ]

Zip(entries) == [ valid |-> TRUE, entries |-> entries ]

Entry(name, data, compress) ==
    [ name |-> name, data |-> data, compress |-> compress ]

EntryNames(zip) == { zip.entries[i].name : i \in DOMAIN zip.entries }

\* zip_ref.extractall(temp_dir): the tree of files; a later entry of the
\* same name overwrites an earlier one
extractall(zip) ==
    [ n \in EntryNames(zip) |->
        LET last == CHOOSE i \in DOMAIN zip.entries :
                      /\ zip.entries[i].name = n
                      /\ \A j \in DOMAIN zip.entries :
                            zip.entries[j].name = n => j <= i
        IN  zip.entries[last].data ]

\* find_css_file's "return None"
NoPath == <<>>

RECURSIVE FirstExisting(_, _)
FirstExisting(paths, tree) ==
    IF paths = <<>> THEN NoPath
    ELSE IF Head(paths) \in DOMAIN tree THEN Head(paths)
    ELSE FirstExisting(Tail(paths), tree)

\* faulty variant of find_css_file: the list is searched from its end
find_css_file_last(tree) ==
    FirstExisting([ i \in DOMAIN possible_paths |->
                      possible_paths[Len(possible_paths) + 1 - i] ], tree)

find_css_file(tree) == FirstExisting(possible_paths, tree)

\* lines 141-148: create OPS/style.css when find_css_file returned None
with_css_file(tree) ==
    IF find_css_file(tree) = NoPath
    THEN (possible_paths[1] :> placeholder_css) @@ tree
    ELSE tree

css_file(tree) ==
    IF find_css_file(tree) = NoPath THEN possible_paths[1]
    ELSE find_css_file(tree)

\* lines 150-152: open(css_file, 'a').write(css)
append_css(tree, css) ==
    LET t == with_css_file(tree)
        f == css_file(tree)
    IN  [ t EXCEPT ![f] = t[f] \o css ]

\* os.walk(temp_dir), top-down: the files of the root in the order the
\* directory lists them, then directory after directory, each with its
\* files; the listing orders are not specified
RootFiles(tree) == { n \in DOMAIN tree : Len(n) = 1 }
Dirs(tree)      == { n[1] : n \in { m \in DOMAIN tree : Len(m) = 2 } }
DirFiles(tree, d) == { n \in DOMAIN tree : Len(n) = 2 /\ n[1] = d }

Listings(tree) ==
    { pick \in [ Dirs(tree) ->
                   UNION { Perms(DirFiles(tree, d)) : d \in Dirs(tree) } ] :
        \A d \in Dirs(tree) : Range(pick[d]) = DirFiles(tree, d) }

os_walk(tree) ==
    { rf \o Flatten([ i \in DOMAIN ds |-> pick[ds[i]] ]) :
        rf \in Perms(RootFiles(tree)),
        ds \in Perms(Dirs(tree)),
        pick \in Listings(tree) }

basename(name) == name[Len(name)]

\* lines 162-169: the loop over os.walk, `if file == 'mimetype': continue`
RECURSIVE write_walk(_, _)
write_walk(tree, order) ==
    IF order = <<>> THEN <<>>
    ELSE IF basename(Head(order)) = "mimetype"
         THEN write_walk(tree, Tail(order))
         ELSE << Entry(Head(order), tree[Head(order)], DEFLATED) >>
              \o write_walk(tree, Tail(order))

\* faulty variant of write_mimetype: compress_type is left at the default
\* of the loop below
write_mimetype_deflated(tree) ==
    IF mimetype \in DOMAIN tree
    THEN << Entry(mimetype, tree[mimetype], DEFLATED) >>
    ELSE <<>>

\* lines 157-159: mimetype first, stored
write_mimetype(tree) ==
    IF mimetype \in DOMAIN tree
    THEN << Entry(mimetype, tree[mimetype], STORED) >>
    ELSE <<>>

\* lines 155-169: the archive written from the tree, walked in `order`
write_zip(tree, order) ==
    Zip(write_mimetype(tree) \o write_walk(tree, order))

\* lines 133-169 of interactive_epub_modifier.py, 53-89 of
\* modify_epub_margins.py: the archive written for a valid source archive
transform(zip, css, order) ==
    write_zip(append_css(extractall(zip), css), order)

\* the walk orders the written tree admits
walk_orders(zip, css) == os_walk(append_css(extractall(zip), css))

-----------------------------------------------------------------------------
(* Lines read from the terminal and command-line arguments are sequences   *)
(* of characters; "cyr_d" and "cyr_a" stand for the Cyrillic letters of    *)
(* the answers the source accepts beside "y" and "yes".                    *)

IsDigit(c) == c \in Range(DigitChar)

DigitVal(c) == (CHOOSE i \in DOMAIN DigitChar : DigitChar[i] = c) - 1

lower_char(c) ==
    CASE c = "Y" -> "y"
      [] c = "E" -> "e"
      [] c = "S" -> "s"
      [] c = "N" -> "n"
      [] c = ".EPUB" -> ".epub"
      [] OTHER -> c

\* str.lower()
lower(s) == [ i \in DOMAIN s |-> lower_char(s[i]) ]

\* str.strip()
RECURSIVE lstrip(_)
lstrip(s) == IF s # <<>> /\ Head(s) = " " THEN lstrip(Tail(s)) ELSE s

RECURSIVE rstrip(_)
rstrip(s) ==
    IF s # <<>> /\ s[Len(s)] = " " THEN rstrip(SubSeq(s, 1, Len(s) - 1)) ELSE s

strip(s) == rstrip(lstrip(s))

RECURSIVE DigitsValue(_)
DigitsValue(s) ==
    IF s = <<>> THEN 0
    ELSE 10 * DigitsValue(SubSeq(s, 1, Len(s) - 1)) + DigitVal(s[Len(s)])

\* int(s): surrounding blanks, an optional sign, then digits; anything else
\* raises ValueError
int_ok(s) ==
    LET t == strip(s)
        d == IF t # <<>> /\ Head(t) \in { "+", "-" } THEN Tail(t) ELSE t
    IN  d # <<>> /\ \A i \in DOMAIN d : IsDigit(d[i])

int(s) ==
    LET t == strip(s)
    IN  IF Head(t) = "-" THEN 0 - DigitsValue(Tail(t))
        ELSE IF Head(t) = "+" THEN DigitsValue(Tail(t))
        ELSE DigitsValue(t)

affirmative == { << "y" >>, << "y", "e", "s" >>, << "cyr_d" >>, << "cyr_d", "cyr_a" >> }

\* faulty variant of affirmative_replace: the list of line 368 is used
affirmative_replace_short ==
    { << "y" >>, << "y", "e", "s" >>, << "cyr_d" >>, << "cyr_d", "cyr_a" >> }

\* line 331: only the full words confirm the replacement of the originals
affirmative_replace == { << "y", "e", "s" >>, << "cyr_d", "cyr_a" >> }

-----------------------------------------------------------------------------
(* File names.  A path is a sequence of tokens: "./" and "books-upgrade/"  *)
(* are directory prefixes, ".epub" and ".EPUB" extensions, "*" the         *)
(* wildcard, every other token a piece of a file's stem.                   *)

DirToks == { "./", "books-upgrade/" }
ExtToks == { ".epub", ".EPUB" }

\* the file a path names: the working directory's "./" says nothing
Resolve(p) == SelectSeq(p, LAMBDA t : t # "./")

\* pathlib.Path(p) drops "./" as well
Path(p) == SelectSeq(p, LAMBDA t : t # "./")

path_parent(p) == SelectSeq(p, LAMBDA t : t \in DirToks)
path_name(p)   == SelectSeq(p, LAMBDA t : t \notin DirToks)

\* Path.stem: the name without its last suffix
path_stem(p) ==
    LET n == path_name(p)
    IN  IF Len(n) > 1 /\ n[Len(n)] \in ExtToks
        THEN SubSeq(n, 1, Len(n) - 1) ELSE n

exists(fsys, p) == Resolve(p) \in DOMAIN fsys

\* glob.glob(pattern) for a pattern with one "*": the matching paths,
\* spelled with the pattern's directory prefix; "*" matches no "/" and no
\* leading "."
glob_matches(fsys, pattern) ==
    LET k    == CHOOSE i \in DOMAIN pattern : pattern[i] = "*"
        pre  == SubSeq(pattern, 1, k - 1)
        post == SubSeq(pattern, k + 1, Len(pattern))
    IN  { q \in { path_parent(pre) \o f : f \in DOMAIN fsys } :
            LET mid == SubSeq(q, Len(pre) + 1, Len(q) - Len(post))
            IN  /\ Len(q) >= Len(pre) + Len(post)
                /\ SubSeq(q, 1, Len(pre)) = pre
                /\ EndsWith(q, post)
                /\ \A i \in DOMAIN mid : mid[i] \notin DirToks
                /\ (pre = <<>> \/ pre[Len(pre)] \in DirToks)
                      => (mid # <<>> /\ Head(mid) \notin ExtToks) }

\* the orders in which glob.glob may list its matches
glob(fsys, pattern) == Perms(glob_matches(fsys, pattern))

output_markers ==
    { << "-margins", ".epub" >>, << "-no-hyphens", ".epub" >>,
      << "-enhanced", ".epub" >>, << "-upgrade", ".epub" >> }

RECURSIVE Filter(_, _)
Filter(s, keep) ==
    IF s = <<>> THEN <<>>
    ELSE (IF Head(s) \in keep THEN << Head(s) >> ELSE <<>>)
         \o Filter(Tail(s), keep)

\* interactive_epub_modifier.get_epub_files: glob("*.epub") without the
\* names that hold an output marker
get_epub_files(fsys) ==
    { Filter(files, { f \in Range(files) :
                        ~ \E suffix \in output_markers : Contains(f, suffix) }) :
        files \in glob(fsys, << "*", ".epub" >>) }

\* modify_epub_margins.get_epub_files: glob("*.epub")
cli_get_epub_files(fsys) == glob(fsys, << "*", ".epub" >>)

-----------------------------------------------------------------------------
(* process_epub on the file system.                                        *)

BooksUpgrade == "books-upgrade/"

\* faulty variant of output_path: the output mode is not looked at
output_path_in_place(epub_path, mode) == Path(epub_path)

\* interactive_epub_modifier.process_epub, lines 125-129
output_path(epub_path, mode) ==
    IF mode = "replace" THEN Path(epub_path)
    ELSE << BooksUpgrade >> \o path_name(Path(epub_path))

\* modify_epub_margins.process_epub, line 49
cli_output_path(epub_path) ==
    path_parent(Path(epub_path)) \o path_stem(Path(epub_path))
        \o << "-upgrade", ".epub" >>

\* zipfile.ZipFile(epub_path, 'r') / extractall raise: no such file, or a
\* file that is no ZIP archive
raises(fsys, epub_path) ==
    ~ exists(fsys, epub_path) \/ ~ fsys[Resolve(epub_path)].valid

write_file(fsys, path, zip) == (Resolve(path) :> zip) @@ fsys

\* faulty variant of process_epub: an output that exists already is taken
\* as the source
process_epub_accumulating(fsys, epub_path, mtype, size, mode, order) ==
    LET dest == output_path(epub_path, mode)
        from == IF exists(fsys, dest) /\ fsys[Resolve(dest)].valid
                THEN dest ELSE epub_path
    IN  write_file(fsys, dest,
                   transform(fsys[Resolve(from)], css_content(mtype, size), order))

\* interactive_epub_modifier.process_epub, when nothing raises
process_epub(fsys, epub_path, mtype, size, mode, order) ==
    write_file(fsys, output_path(epub_path, mode),
               transform(fsys[Resolve(epub_path)], css_content(mtype, size), order))

\* modify_epub_margins.process_epub, when nothing raises
cli_process_epub(fsys, epub_path, size, order) ==
    write_file(fsys, cli_output_path(epub_path),
               transform(fsys[Resolve(epub_path)], get_margin_css(size), order))

-----------------------------------------------------------------------------
(* The worlds the programs start in.                                       *)

FileA == << "a", ".epub" >>
FileB == << "b", ".epub" >>
FileAUpgrade == << "a", "-upgrade", ".epub" >>
FileBMargins == << "b", "-margins", ".epub" >>

DataOf(name) == << "content of" >> \o name

SampleA ==
    Zip(<< Entry(<< "OPS", "style.css" >>, DataOf(<< "OPS", "style.css" >>), DEFLATED),
           Entry(mimetype, DataOf(mimetype), DEFLATED) >>)

SampleB == Zip(<< Entry(<< "content.opf" >>, DataOf(<< "content.opf" >>), DEFLATED) >>)

\* working directories: book a a good archive or no archive at all, book
\* b absent, good or no archive; a directory that also holds files left by
\* earlier runs; directories without any book
Worlds ==
    { a @@ b :
        a \in { FileA :> SampleA, FileA :> Corrupt },
        b \in { << >>, FileB :> SampleB, FileB :> Corrupt } }
    \cup { (FileA :> SampleA) @@ (FileAUpgrade :> SampleA) @@ (FileBMargins :> SampleB),
           FileAUpgrade :> SampleA,
           << >> @@ << >> }

\* the entry names a source archive of the transform is drawn from
EntryUniverse ==
    << << "content.opf" >>, << "css", "style.css" >>, << "OPS", "mimetype" >>,
       << "styles", "style.css" >>, << "OEBPS", "style.css" >>,
       << "OPS", "style.css" >>, mimetype >>

RECURSIVE EntriesOf(_, _)
EntriesOf(names, S) ==
    IF names = <<>> THEN <<>>
    ELSE (IF Head(names) \in S
          THEN << Entry(Head(names), DataOf(Head(names)), DEFLATED) >> ELSE <<>>)
         \o EntriesOf(Tail(names), S)

SourceArchives == { Zip(EntriesOf(EntryUniverse, S)) : S \in SUBSET Range(EntryUniverse) }

MarginSamples == { DefaultMargin, 5 }

\* what the user may type at a prompt
Lines(prompt) ==
    CASE prompt = "ask_modification_type" ->
            { << "0" >>, << "1" >>, << "2" >>, << "3" >>, << "4" >>, << "x" >> }
      [] prompt = "ask_margin_size" ->
            { << >>, << "5" >>, << " ", "5" >>, << "x" >> }
      [] prompt = "ask_output_mode" ->
            { << "0" >>, << "1" >>, << " ", "2", " " >>, << "3" >>, << >> }
      [] prompt = "ask_file_selection" ->
            { << "0" >>, << "1" >>, << "2" >>, << "3" >>, << "4" >>,
              << "-", "1" >>, << "x" >> }
      [] prompt \in { "confirm_replace", "confirm", "another" } ->
            { << "y" >>, << "Y", "E", "S" >>, << "cyr_d", "cyr_a" >>,
              << "n" >>, << "x" >> }

\* what the command line may hold
ArgSamples ==
    { FileA, << "./", "a", ".epub" >>, FileBMargins, << "*", ".epub" >>,
      << "--all" >>, << "--margin" >>, << "5" >>, << "-h" >> }

ArgLists == UNION { [ 1 .. n -> ArgSamples ] : n \in 0 .. MaxArgs }

NoRead == [ prompt |-> "none", line |-> << >> ]
Read(line) == [ prompt |-> pc, line |-> line ]

\* no line: the prompt was not reached in this pass
NoLine == << "(not asked)" >>

NoGate == [ replace |-> NoLine, start |-> NoLine ]

Pass(file, ok, order) == [ file |-> file, ok |-> ok, order |-> order ]

-----------------------------------------------------------------------------
(* Initial states.                                                         *)

InitCommon ==
    /\ dirs = {}
    /\ epub_files = << >>
    /\ selected_files = << >>
    /\ todo = << >>
    /\ success_count = 0
    /\ exit_code = None
    /\ read = NoRead
    /\ gate = NoGate
    /\ batches = 0
    /\ fs0 = fs
    /\ log = << >>
    /\ session = [ origin |-> fs, modes |-> { }, written |-> << >> ]

InitInteractive ==
    /\ tool = "interactive"
    /\ pc = "start"
    /\ fs \in Worlds
    /\ argv = << >>
    /\ argi = 0
    /\ modification_type = None
    /\ margin_size = DefaultMargin
    /\ output_mode = None
    /\ InitCommon

InitCli ==
    /\ tool = "cli"
    /\ pc = "parse"
    /\ fs \in Worlds
    /\ argv \in ArgLists
    /\ argi = 1
    /\ modification_type = "margins"
    /\ margin_size = DefaultMargin
    /\ output_mode = "suffix"
    /\ InitCommon

\* the transform alone, applied in place to one archive
InitTransform ==
    /\ tool = "transform"
    /\ pc = "process"
    /\ fs \in { FileA :> zip : zip \in SourceArchives }
    /\ argv = << >>
    /\ argi = 0
    /\ \E request \in { << "margins", m >> : m \in MarginSamples }
                        \cup { << "hyphens", DefaultMargin >>,
                               << "both", DefaultMargin >> } :
          modification_type = request[1] /\ margin_size = request[2]
    /\ output_mode = "replace"
    /\ InitCommon

Init == InitInteractive \/ InitCli

-----------------------------------------------------------------------------
(* interactive_epub_modifier.main.  The locals of main are dead at the top *)
(* of `while True` (modification_type, margin_size, output_mode,           *)
(* selected_files and success_count are each assigned, at lines 298, 304,  *)
(* 309, 343 and 376, before they are read again) and when main returns, so *)
(* the model clears them there; epub_files, which is read again, is kept.  *)

ClearLocals ==
    /\ modification_type' = None
    /\ margin_size' = DefaultMargin
    /\ output_mode' = None
    /\ selected_files' = << >>
    /\ todo' = << >>
    /\ success_count' = 0
    /\ gate' = NoGate
    /\ fs0' = fs
    /\ log' = << >>

\* `continue`: back to line 298
Continue == pc' = "ask_modification_type" /\ exit_code' = exit_code /\ ClearLocals

\* main returns, or sys.exit(code)
Exit(code) == pc' = "exit" /\ exit_code' = code /\ ClearLocals

\* lines 287-294
Start ==
    /\ tool = "interactive" /\ pc = "start"
    /\ \E files \in get_epub_files(fs) :
          /\ epub_files' = files
          /\ IF files = << >>
             THEN Exit(1)
             ELSE Continue
    /\ read' = NoRead
    /\ UNCHANGED << tool, fs, dirs, argv, argi, batches, session >>

\* ask_modification_type (lines 190-201) and lines 298-306
ask_modification_type(line) ==
    LET choice == strip(line)
        kind == CASE choice = << "1" >> -> "margins"
                  [] choice = << "2" >> -> "hyphens"
                  [] choice = << "3" >> -> "both"
                  [] choice = << "0" >> -> None
                  [] OTHER -> "again"
    IN  /\ read' = Read(line)
        /\ CASE kind = "again" ->
                  UNCHANGED << pc, modification_type, exit_code, margin_size,
                               output_mode, selected_files, todo,
                               success_count, gate, fs0, log >>
             [] kind = None -> Exit(0)
             [] OTHER ->
                  /\ modification_type' = kind
                  /\ pc' = IF kind \in { "margins", "both" }
                           THEN "ask_margin_size" ELSE "ask_output_mode"
                  /\ UNCHANGED << exit_code, margin_size, output_mode,
                                  selected_files, todo, success_count, gate,
                                  fs0, log >>
        /\ UNCHANGED << tool, fs, dirs, argv, argi, epub_files, batches, session >>

AskModificationType ==
    /\ tool = "interactive" /\ pc = "ask_modification_type"
    /\ \E line \in Lines(pc) : ask_modification_type(line)

\* ask_margin_size (lines 219-226)
ask_margin_size(line) ==
    LET size == strip(line)
    IN  /\ read' = Read(line)
        /\ IF size = << >>
           THEN margin_size' = DefaultMargin /\ pc' = "ask_output_mode"
           ELSE IF int_ok(size)
           THEN margin_size' = int(size) /\ pc' = "ask_output_mode"
           ELSE UNCHANGED << margin_size, pc >>
        /\ UNCHANGED << tool, fs, dirs, argv, argi, epub_files, modification_type,
                        output_mode, selected_files, todo, success_count,
                        exit_code, gate, batches, session, fs0, log >>

AskMarginSize ==
    /\ tool = "interactive" /\ pc = "ask_margin_size"
    /\ \E line \in Lines(pc) : ask_margin_size(line)

\* ask_output_mode (lines 238-247) and lines 309-314, 335-340
ask_output_mode(line) ==
    LET choice == strip(line)
        mode == CASE choice = << "1" >> -> "folder"
                  [] choice = << "2" >> -> "replace"
                  [] choice = << "0" >> -> None
                  [] OTHER -> "again"
    IN  /\ read' = Read(line)
        /\ CASE mode = "again" ->
                  UNCHANGED << pc, modification_type, exit_code, margin_size,
                               output_mode, selected_files, todo,
                               success_count, gate, fs0, log, dirs >>
             [] mode = None -> Continue /\ dirs' = dirs
             [] OTHER ->
                  /\ output_mode' = mode
                  /\ pc' = IF mode = "replace" THEN "confirm_replace"
                           ELSE "ask_file_selection"
                  /\ dirs' = IF mode = "folder" THEN dirs \cup { BooksUpgrade }
                             ELSE dirs
                  /\ UNCHANGED << modification_type, exit_code, margin_size,
                                  selected_files, todo, success_count, gate,
                                  fs0, log >>
        /\ UNCHANGED << tool, fs, argv, argi, epub_files, batches, session >>

AskOutputMode ==
    /\ tool = "interactive" /\ pc = "ask_output_mode"
    /\ \E line \in Lines(pc) : ask_output_mode(line)

\* lines 330-333
confirm_replace(line) ==
    /\ read' = Read(line)
    /\ IF lower(strip(line)) \in affirmative_replace
       THEN /\ pc' = "ask_file_selection"
            /\ gate' = [ gate EXCEPT !.replace = line ]
            /\ UNCHANGED << modification_type, exit_code, margin_size,
                            output_mode, selected_files, todo, success_count,
                            fs0, log >>
       ELSE Continue
    /\ UNCHANGED << tool, fs, dirs, argv, argi, epub_files, batches, session >>

ConfirmReplace ==
    /\ tool = "interactive" /\ pc = "confirm_replace"
    /\ \E line \in Lines(pc) : confirm_replace(line)

\* faulty variant of ask_file_selection: line 273 tests only
\* `index < len(epub_files)`, and a negative index counts from the end
ask_file_selection_wraps(line) ==
    LET choice == strip(line)
        index == int(choice) - 1
        chosen == IF choice = Str(Len(epub_files) + 1) THEN epub_files
                  ELSE IF int_ok(choice) /\ index < Len(epub_files)
                  THEN << epub_files[(index % Len(epub_files)) + 1] >>
                  ELSE << >>
    IN  /\ read' = Read(line)
        /\ CASE choice = << "0" >> -> Continue
             [] choice # << "0" >> /\ chosen # << >> ->
                  /\ selected_files' = chosen
                  /\ pc' = "confirm"
                  /\ UNCHANGED << modification_type, exit_code, margin_size,
                                  output_mode, todo, success_count, gate,
                                  fs0, log >>
             [] OTHER ->
                  UNCHANGED << pc, modification_type, exit_code, margin_size,
                               output_mode, selected_files, todo,
                               success_count, gate, fs0, log >>
        /\ UNCHANGED << tool, fs, dirs, argv, argi, epub_files, batches, session >>

\* ask_file_selection (lines 263-278) and lines 343-345
ask_file_selection(line) ==
    LET choice == strip(line)
        index == int(choice) - 1
        chosen == IF choice = Str(Len(epub_files) + 1) THEN epub_files
                  ELSE IF int_ok(choice) /\ 0 <= index /\ index < Len(epub_files)
                  THEN << epub_files[index + 1] >>
                  ELSE << >>
    IN  /\ read' = Read(line)
        /\ CASE choice = << "0" >> -> Continue
             [] choice # << "0" >> /\ chosen # << >> ->
                  /\ selected_files' = chosen
                  /\ pc' = "confirm"
                  /\ UNCHANGED << modification_type, exit_code, margin_size,
                                  output_mode, todo, success_count, gate,
                                  fs0, log >>
             [] OTHER ->
                  UNCHANGED << pc, modification_type, exit_code, margin_size,
                               output_mode, selected_files, todo,
                               success_count, gate, fs0, log >>
        /\ UNCHANGED << tool, fs, dirs, argv, argi, epub_files, batches, session >>

AskFileSelection ==
    /\ tool = "interactive" /\ pc = "ask_file_selection"
    /\ \E line \in Lines(pc) : ask_file_selection(line)

\* lines 367-376
confirm(line) ==
    /\ read' = Read(line)
    /\ IF lower(strip(line)) \in affirmative
       THEN /\ pc' = "process"
            /\ gate' = [ gate EXCEPT !.start = line ]
            /\ success_count' = 0
            /\ todo' = selected_files
            /\ batches' = batches + 1 /\ session' = session
            /\ fs0' = fs
            /\ log' = << >>
            /\ UNCHANGED << modification_type, exit_code, margin_size,
                            output_mode, selected_files >>
       ELSE Continue /\ batches' = batches /\ session' = session
    /\ UNCHANGED << tool, fs, dirs, argv, argi, epub_files >>

Confirm ==
    /\ tool = "interactive" /\ pc = "confirm"
    /\ \E line \in Lines(pc) : confirm(line)

\* line 379, seen from outside: process_epub has written output_path with
\* the fragment of this batch, in this output mode
note_write(epub_file) ==
    LET dest == Resolve(output_path(epub_file, output_mode))
        css  == css_content(modification_type, margin_size)
    IN  [ session EXCEPT !.modes = @ \cup { output_mode },
                         !.written = (dest :> css) @@ @ ]

\* faulty variant of ProcessOne: `success_count += 1` stands after the
\* try statement, not inside it
ProcessOne_counts_all ==
    /\ tool = "interactive" /\ pc = "process" /\ todo # << >>
    /\ LET epub_file == Head(todo)
       IN  IF raises(fs, epub_file)
           THEN /\ log' = Append(log, Pass(epub_file, FALSE, << >>))
                /\ fs' = fs
           ELSE \E order \in walk_orders(fs[Resolve(epub_file)],
                                         css_content(modification_type, margin_size)) :
                  /\ fs' = process_epub(fs, epub_file, modification_type,
                                        margin_size, output_mode, order)
                  /\ log' = Append(log, Pass(epub_file, TRUE, order))
    /\ success_count' = success_count + 1
    /\ session' = IF raises(fs, Head(todo)) THEN session
                  ELSE note_write(Head(todo))
    /\ todo' = Tail(todo)
    /\ read' = NoRead
    /\ UNCHANGED << tool, pc, dirs, argv, argi, epub_files, modification_type,
                    margin_size, output_mode, selected_files, exit_code, gate,
                    batches, fs0 >>

\* lines 377-382: one pass of the batch loop, the exception caught
ProcessOne ==
    /\ tool = "interactive" /\ pc = "process" /\ todo # << >>
    /\ LET epub_file == Head(todo)
       IN  IF raises(fs, epub_file)
           THEN /\ log' = Append(log, Pass(epub_file, FALSE, << >>))
                /\ UNCHANGED << fs, success_count >>
           ELSE \E order \in walk_orders(fs[Resolve(epub_file)],
                                         css_content(modification_type, margin_size)) :
                  /\ fs' = process_epub(fs, epub_file, modification_type,
                                        margin_size, output_mode, order)
                  /\ success_count' = success_count + 1
                  /\ log' = Append(log, Pass(epub_file, TRUE, order))
    /\ session' = IF raises(fs, Head(todo)) THEN session
                  ELSE note_write(Head(todo))
    /\ todo' = Tail(todo)
    /\ read' = NoRead
    /\ UNCHANGED << tool, pc, dirs, argv, argi, epub_files, modification_type,
                    margin_size, output_mode, selected_files, exit_code, gate,
                    batches, fs0 >>

\* lines 384-390: the loop is over, the counts are printed
Report ==
    /\ tool = "interactive" /\ pc = "process" /\ todo = << >>
    /\ pc' = "another"
    /\ read' = NoRead
    /\ UNCHANGED << tool, fs, dirs, argv, argi, epub_files, modification_type,
                    margin_size, output_mode, selected_files, todo,
                    success_count, exit_code, gate, batches, session, fs0, log >>

\* lines 393-396
another(line) ==
    /\ read' = Read(line)
    /\ IF lower(strip(line)) \in affirmative
       THEN Continue
       ELSE Exit(0)
    /\ UNCHANGED << tool, fs, dirs, argv, argi, epub_files, batches, session >>

\* the session is cut short after MaxBatches batches, session
Another ==
    /\ tool = "interactive" /\ pc = "another"
    /\ \E line \in Lines(pc) :
          /\ (lower(strip(line)) \in affirmative) => batches < MaxBatches
          /\ another(line)

-----------------------------------------------------------------------------
(* modify_epub_margins.main                                                *)

CliExit(code) ==
    /\ pc' = "exit" /\ exit_code' = code
    /\ UNCHANGED << argi, margin_size, epub_files >>

\* lines 104-140: one pass of the argument loop
CliParseArg ==
    /\ tool = "cli" /\ pc = "parse" /\ argi <= Len(argv)
    /\ LET arg == argv[argi]
       IN  CASE arg \in { << "--help" >>, << "-h" >> } -> CliExit(0)
             [] arg = << "--margin" >> ->
                  IF argi + 1 <= Len(argv) /\ int_ok(argv[argi + 1])
                  THEN /\ margin_size' = int(argv[argi + 1])
                       /\ argi' = argi + 2
                       /\ UNCHANGED << pc, exit_code, epub_files >>
                  ELSE CliExit(1)
             [] arg = << "--all" >> ->
                  /\ argi' = argi + 1
                  /\ UNCHANGED << pc, exit_code, margin_size, epub_files >>
             [] OTHER ->
                  /\ IF "*" \in Range(arg)
                     THEN \E matched_files \in glob(fs, arg) :
                            epub_files' = epub_files \o
                              Filter(matched_files,
                                     { f \in Range(matched_files) :
                                         EndsWith(lower(f), << ".epub" >>) })
                     ELSE epub_files' = Append(epub_files, arg)
                  /\ argi' = argi + 1
                  /\ UNCHANGED << pc, exit_code, margin_size >>
    /\ read' = NoRead
    /\ UNCHANGED << tool, fs, dirs, argv, modification_type, output_mode,
                    selected_files, todo, success_count, gate, batches, session, fs0, log >>

\* lines 155-165: the files kept of a list, by what the loop tests
cli_keep(fsys, files) ==
    { f \in Range(files) :
        /\ exists(fsys, f)
        /\ EndsWith(lower(f), << ".epub" >>)
        /\ ~ EndsWith(f, << "-upgrade", ".epub" >>) }

\* lines 155-165: set(epub_files) is walked in an order of its own
unique_files(fsys, files) == Perms(cli_keep(fsys, files))

\* lines 142-177: the files are settled and the batch loop starts
CliResolve ==
    /\ tool = "cli" /\ pc = "parse" /\ argi > Len(argv)
    /\ \E found \in (IF epub_files = << >> \/ << "--all" >> \in Range(argv)
                     THEN cli_get_epub_files(fs) ELSE { epub_files }) :
          /\ epub_files' = found
          /\ IF found = << >>
             THEN /\ pc' = "exit" /\ exit_code' = 1
                  /\ UNCHANGED << selected_files, todo, batches, session >>
             ELSE \E unique \in unique_files(fs, found) :
                    /\ selected_files' = unique
                    /\ IF unique = << >>
                       THEN /\ pc' = "exit" /\ exit_code' = 1
                            /\ UNCHANGED << todo, batches, session >>
                       ELSE /\ pc' = "process" /\ exit_code' = exit_code
                            /\ todo' = unique
                            /\ batches' = batches + 1
    /\ read' = NoRead
    /\ UNCHANGED << tool, fs, dirs, argv, argi, modification_type, margin_size,
                    output_mode, success_count, gate, fs0, log, session >>

\* lines 178-183: one pass of the batch loop, the exception caught
CliProcessOne ==
    /\ tool = "cli" /\ pc = "process" /\ todo # << >>
    /\ LET epub_file == Head(todo)
       IN  IF raises(fs, epub_file)
           THEN /\ log' = Append(log, Pass(epub_file, FALSE, << >>))
                /\ UNCHANGED << fs, success_count >>
           ELSE \E order \in walk_orders(fs[Resolve(epub_file)],
                                         get_margin_css(margin_size)) :
                  /\ fs' = cli_process_epub(fs, epub_file, margin_size, order)
                  /\ success_count' = success_count + 1
                  /\ log' = Append(log, Pass(epub_file, TRUE, order))
    /\ todo' = Tail(todo)
    /\ read' = NoRead
    /\ UNCHANGED << tool, pc, dirs, argv, argi, epub_files, modification_type,
                    margin_size, output_mode, selected_files, exit_code, gate,
                    batches, session, fs0 >>

\* line 185: the loop is over, the counts are printed, main returns
CliReport ==
    /\ tool = "cli" /\ pc = "process" /\ todo = << >>
    /\ pc' = "exit" /\ exit_code' = 0
    /\ read' = NoRead
    /\ UNCHANGED << tool, fs, dirs, argv, argi, epub_files, modification_type,
                    margin_size, output_mode, selected_files, todo,
                    success_count, gate, batches, session, fs0, log >>

-----------------------------------------------------------------------------
(* The transform applied again and again to its own output.                *)

Apply ==
    /\ tool = "transform" /\ success_count < MaxApply
    /\ \E order \in walk_orders(fs[FileA],
                                css_content(modification_type, margin_size)) :
          fs' = process_epub(fs, FileA, modification_type, margin_size,
                             output_mode, order)
    /\ success_count' = success_count + 1
    /\ UNCHANGED << tool, pc, dirs, argv, argi, epub_files, modification_type,
                    margin_size, output_mode, selected_files, todo, exit_code,
                    read, gate, batches, session, fs0, log >>

-----------------------------------------------------------------------------

Next ==
    \/ Start
    \/ AskModificationType
    \/ AskMarginSize
    \/ AskOutputMode
    \/ ConfirmReplace
    \/ AskFileSelection
    \/ Confirm
    \/ ProcessOne
    \/ Report
    \/ Another
    \/ CliParseArg
    \/ CliResolve
    \/ CliProcessOne
    \/ CliReport

Spec == Init /\ [][Next]_vars

SpecTransform == InitTransform /\ [][Apply]_vars

-----------------------------------------------------------------------------
(* Properties of the archive transform, checked under SpecTransform.       *)

\* the four conventional stylesheet paths, in the order they are searched
ConventionalPaths ==
    << << "OPS", "style.css" >>, << "OEBPS", "style.css" >>,
       << "styles", "style.css" >>, << "css", "style.css" >> >>

\* the stylesheet the transform is to change in a tree with these names
ResolvedStylesheet(names) ==
    IF \E i \in DOMAIN ConventionalPaths : ConventionalPaths[i] \in names
    THEN ConventionalPaths[CHOOSE i \in DOMAIN ConventionalPaths :
                             /\ ConventionalPaths[i] \in names
                             /\ \A j \in 1 .. (i - 1) : ConventionalPaths[j] \notin names]
    ELSE ConventionalPaths[1]

RECURSIVE Copies(_, _)
Copies(text, k) == IF k = 0 THEN << >> ELSE text \o Copies(text, k - 1)

NoDuplicateEntries(zip) == Cardinality(EntryNames(zip)) = Len(zip.entries)

\* archive `out` holds every entry of archive `src` with the same content,
\* but for the stylesheet, which holds its old content (or the placeholder)
\* and then k copies of css; and nothing else
SameButStylesheet(src, out, css, k) ==
    LET before == extractall(src)
        after  == extractall(out)
        sheet  == ResolvedStylesheet(DOMAIN before)
        base   == IF sheet \in DOMAIN before THEN before[sheet]
                  ELSE << "/* auto-created CSS */\n" >>
    IN  /\ out.valid
        /\ NoDuplicateEntries(out)
        /\ DOMAIN after = DOMAIN before \cup { sheet }
        /\ \A n \in DOMAIN before \ { sheet } : after[n] = before[n]
        /\ after[sheet] = base \o Copies(css, k)

Source == fs0[FileA]
Output == fs[FileA]
Fragment == css_content(modification_type, margin_size)

\* C1: the archive written by process_epub holds every entry of the source
\* archive with identical content, entries named 'mimetype' in
\* subdirectories included, except that the resolved stylesheet holds its
\* original content (or the placeholder) followed by exactly the generated
\* fragment; no entry is added, dropped or altered.
C1_EveryEntryKept ==
    (tool = "transform" /\ success_count = 1)
        => SameButStylesheet(Source, Output, Fragment, 1)

\* C2: when the source archive has a root entry 'mimetype', the written
\* archive has exactly one 'mimetype' entry, written first, stored without
\* compression, with the source's bytes; every other entry follows it,
\* deflated.
C2_MimetypeFirstStored ==
    (tool = "transform" /\ success_count >= 1 /\ << "mimetype" >> \in EntryNames(Source))
        => LET out == Output.entries
           IN  /\ Len(out) >= 1
               /\ out[1].name = << "mimetype" >>
               /\ out[1].compress = "ZIP_STORED"
               /\ out[1].data = extractall(Source)[<< "mimetype" >>]
               /\ \A i \in 2 .. Len(out) :
                     /\ out[i].name # << "mimetype" >>
                     /\ out[i].compress = "ZIP_DEFLATED"

\* C2's case: a source whose mimetype entry was neither first nor stored
\* has been rewritten, together with other entries
C2_Witness ==
    /\ tool = "transform" /\ success_count = 1
    /\ << "mimetype" >> \in EntryNames(Source)
    /\ Source.entries[1].name # << "mimetype" >>
    /\ \A i \in DOMAIN Source.entries : Source.entries[i].compress = "ZIP_DEFLATED"
    /\ Len(Output.entries) >= 3

\* C7: the margin transform applied k times in place leaves a stylesheet
\* that is the original content followed by k copies of the margin
\* fragment, every other entry unchanged (twice: two copies).
C7_KCopies ==
    (tool = "transform" /\ modification_type = "margins" /\ success_count >= 1)
        => SameButStylesheet(Source, Output, get_margin_css(margin_size), success_count)

\* C10: the fragment is appended only to the first present path of
\* OPS/style.css, OEBPS/style.css, styles/style.css, css/style.css; the
\* other present candidates are unchanged; if none is present,
\* OPS/style.css is created with the placeholder line and the fragment.
C10_OneStylesheet ==
    (tool = "transform" /\ success_count = 1)
        => LET before  == extractall(Source)
               after   == extractall(Output)
               all     == Range(ConventionalPaths)
               present == all \cap DOMAIN before
               first   == ResolvedStylesheet(DOMAIN before)
           IN  IF present = {}
               THEN /\ all \cap DOMAIN after = { << "OPS", "style.css" >> }
                    /\ after[<< "OPS", "style.css" >>]
                         = << "/* auto-created CSS */\n" >> \o Fragment
               ELSE /\ all \cap DOMAIN after = present
                    /\ after[first] = before[first] \o Fragment
                    /\ \A c \in present \ { first } : after[c] = before[c]

\* C10's case: several candidates are present, OPS/style.css is not
C10_Witness ==
    /\ tool = "transform" /\ success_count = 1
    /\ << "OPS", "style.css" >> \notin EntryNames(Source)
    /\ Cardinality(Range(ConventionalPaths) \cap EntryNames(Source)) >= 2
    /\ Cardinality(Range(ConventionalPaths) \cap EntryNames(Output)) >= 2

-----------------------------------------------------------------------------
(* Properties of the two programs, checked under Spec.                     *)

YesWords == { << "y" >>, << "y", "e", "s" >>, << "cyr_d" >>, << "cyr_d", "cyr_a" >> }
NoWords  == { << "n" >>, << "n", "o" >>, << "cyr_n" >>, << "cyr_n", "cyr_e", "cyr_t" >> }

\* the batch loop has run to its end
BatchOver ==
    \/ tool = "interactive" /\ pc = "another"
    \/ tool = "cli" /\ pc = "exit" /\ batches = 1

\* a batch loop is running or has just ended
InBatch ==
    \/ tool = "interactive" /\ pc \in { "process", "another" }
    \/ tool = "cli" /\ batches = 1

\* the file was no ZIP archive when the batch started
IsCorrupt(file) == ~ fs0[Resolve(file)].valid

Redo(fsys, pass) ==
    IF tool = "cli"
    THEN cli_process_epub(fsys, pass.file, margin_size, pass.order)
    ELSE process_epub(fsys, pass.file, modification_type, margin_size,
                      output_mode, pass.order)

\* the files a batch leaves when it transforms the files of `passes`, one
\* after the other, each walked in the order noted
RECURSIVE Replay(_, _)
Replay(fsys, passes) ==
    IF passes = << >> THEN fsys
    ELSE Replay(Redo(fsys, Head(passes)), Tail(passes))

WithoutCorrupt(passes) == SelectSeq(passes, LAMBDA p : ~ IsCorrupt(p.file))

\* C3: a batch with corrupt files in it runs over all N files; the success
\* count is the number of files that are not corrupt (N-1 with exactly one
\* corrupt file) and never exceeds N; and the files left are those the
\* batch leaves when the corrupt files are not part of it.
C3_BatchSurvivesCorrupt ==
    BatchOver =>
        /\ [ i \in DOMAIN log |-> log[i].file ] = selected_files
        /\ success_count = Len(WithoutCorrupt(log))
        /\ success_count <= Len(selected_files)
        /\ Cardinality({ i \in DOMAIN selected_files : IsCorrupt(selected_files[i]) }) = 1
              => success_count = Len(selected_files) - 1
        /\ fs = Replay(fs0, WithoutCorrupt(log))

\* C3's case: two files, the first of them corrupt, the second transformed
C3_Witness ==
    /\ BatchOver
    /\ Len(selected_files) = 2
    /\ IsCorrupt(selected_files[1]) /\ ~ IsCorrupt(selected_files[2])
    /\ success_count = 1
    /\ fs # fs0

\* the book files of the working directory
IsOriginal(path) == path_parent(path) = << >>

\* C4: in the interactive session no archive is written before the final
\* confirmation of the pass was answered affirmatively, and a file of the
\* working directory is overwritten only if, in the same pass, the output
\* mode is 'replace' and the overwrite warning was answered 'yes'/'da'.
C4_WritesAreConfirmed ==
    [][ tool = "interactive" =>
          /\ fs' # fs => lower(strip(gate.start)) \in YesWords
          /\ \A p \in DOMAIN fs :
                (IsOriginal(p) /\ fs'[p] # fs[p]) =>
                    /\ output_mode = "replace"
                    /\ lower(strip(gate.replace)) \in
                          { << "y", "e", "s" >>, << "cyr_d", "cyr_a" >> }
                    /\ lower(strip(gate.start)) \in YesWords ]_vars

\* C4's case: a batch in 'replace' mode has overwritten an original
C4_Witness ==
    /\ tool = "interactive" /\ pc = "another"
    /\ output_mode = "replace"
    /\ success_count >= 1
    /\ \E p \in DOMAIN fs0 : IsOriginal(p) /\ fs[p] # fs0[p]

\* C5: in 'folder' mode and in the command-line tool the destination of a
\* target is never the target's own path and the target's file is as it
\* was when the batch started, whether its transform succeeded or failed;
\* in 'replace' mode the destination is the source.
C5_SourcesUntouched ==
    InBatch =>
        \A f \in Range(selected_files) :
            CASE tool = "cli" ->
                    /\ Resolve(cli_output_path(f)) # Resolve(f)
                    /\ fs[Resolve(f)] = fs0[Resolve(f)]
              [] tool = "interactive" /\ output_mode = "folder" ->
                    /\ Resolve(output_path(f, output_mode)) # Resolve(f)
                    /\ fs[Resolve(f)] = fs0[Resolve(f)]
              [] tool = "interactive" /\ output_mode = "replace" ->
                    Resolve(output_path(f, output_mode)) = Resolve(f)

\* C5's case: a 'folder' batch over two files, one transformed, one failed
C5_Witness ==
    /\ tool = "interactive" /\ pc = "another"
    /\ output_mode = "folder"
    /\ Len(log) = 2 /\ success_count = 1
    /\ \E p \in DOMAIN fs : ~ IsOriginal(p)

ClaimedMarkers ==
    { << "-margins", ".epub" >>, << "-no-hyphens", ".epub" >>,
      << "-enhanced", ".epub" >>, << "-upgrade", ".epub" >> }

IsMarked(file) == \E marker \in ClaimedMarkers : Contains(file, marker)

\* the command line names no file: only options and the margin's value
NoFilesGiven ==
    \A i \in DOMAIN argv :
        \/ argv[i] \in { << "--all" >>, << "--margin" >> }
        \/ i > 1 /\ argv[i - 1] = << "--margin" >>

\* the targets of the command-line tool that its own scan of the working
\* directory has found, as opposed to those named or globbed by an argument
Discovered ==
    IF NoFilesGiven THEN Range(selected_files)
    ELSE IF << "--all" >> \in Range(argv)
              /\ \A i \in DOMAIN argv : ~ Contains(argv[i], << "*" >>)
         THEN Range(selected_files) \ Range(argv)
         ELSE { }

\* C6: automatic discovery (the interactive tool's scan; the command-line
\* tool's when no file is given or --all is passed) never yields a target
\* whose name holds -margins.epub, -no-hyphens.epub, -enhanced.epub or
\* -upgrade.epub.
C6_NoMarkedTargets ==
    /\ tool = "interactive" =>
          \A f \in Range(epub_files) \cup Range(selected_files) : ~ IsMarked(f)
    /\ (tool = "cli" /\ batches = 1) =>
          \A f \in Discovered : ~ IsMarked(f)

\* C8: in the command-line tool each archive file is transformed at most
\* once in a run and no destination is written more than once.
C8_EachFileOnce ==
    tool = "cli" =>
        \A i, j \in DOMAIN log :
            i # j =>
                /\ Resolve(log[i].file) # Resolve(log[j].file)
                /\ Resolve(cli_output_path(log[i].file))
                      # Resolve(cli_output_path(log[j].file))

MenuPrompts ==
    { "ask_modification_type", "ask_margin_size", "ask_output_mode",
      "ask_file_selection" }

YesNoPrompts == { "confirm_replace", "confirm", "another" }

LooksNumeric(s) ==
    LET d == IF s # << >> /\ Head(s) \in { "+", "-" } THEN Tail(s) ELSE s
    IN  d # << >> /\ \A i \in DOMAIN d : d[i] \in Range(DigitChar)

\* the line is none of the answers the prompt offers
InvalidAt(prompt, line) ==
    LET answer == strip(line)
    IN  CASE prompt = "ask_modification_type" ->
                answer \notin { << "0" >>, << "1" >>, << "2" >>, << "3" >> }
          [] prompt = "ask_margin_size" ->
                answer # << >> /\ ~ LooksNumeric(answer)
          [] prompt = "ask_output_mode" ->
                answer \notin { << "0" >>, << "1" >>, << "2" >> }
          [] prompt = "ask_file_selection" ->
                ~ (LooksNumeric(answer)
                     /\ int(answer) \in 0 .. (Len(epub_files) + 1))
          [] prompt \in YesNoPrompts ->
                lower(answer) \notin YesWords \cup NoWords
          [] OTHER -> FALSE

\* the step reads a line at the prompt the session stands at
ReadsAt(prompts) == pc \in prompts /\ read'.prompt = pc /\ read' # read

SessionState ==
    << fs, dirs, epub_files, modification_type, margin_size, output_mode,
       selected_files, batches >>

-----------------------------------------------------------------------------
(* Batches of one interactive session, one after the other.                *)

\* every write of the session so far was made in this output mode
OnlyMode(mode) == session.modes \subseteq { mode }

\* the archives that applying the fragments to zip, one after the other,
\* each application reading what the one before has written, can leave
RECURSIVE Results(_, _)
Results(zip, fragments) ==
    IF fragments = << >> THEN { zip }
    ELSE UNION { Results(transform(zip, Head(fragments), order), Tail(fragments)) :
                    order \in walk_orders(zip, Head(fragments)) }

\* the text of the stylesheet that the transform resolves in archive zip
SheetOf(zip) ==
    LET tree  == extractall(zip)
        sheet == ResolvedStylesheet(DOMAIN tree)
    IN  IF sheet \in DOMAIN tree THEN tree[sheet]
        ELSE << "/* auto-created CSS */\n" >>

\* the file of the working directory that a file of books-upgrade comes from
OriginalOf(p) == SelectSeq(p, LAMBDA t : t # "books-upgrade/")

\* after 'folder' batches only: the originals are as at the start, and each
\* file of books-upgrade is its original with the last fragment alone
FolderDoesNotAccumulate ==
    \A p \in DOMAIN fs :
        IF IsOriginal(p)
        THEN p \in DOMAIN session.origin /\ fs[p] = session.origin[p]
        ELSE /\ p \in DOMAIN session.written
             /\ LET from == session.origin[OriginalOf(p)]
                    last == session.written[p]
                IN  /\ fs[p] \in Results(from, << last >>)
                    /\ SheetOf(fs[p]) = SheetOf(from) \o last

\* after 'replace' batches only: nothing is written beside the originals, an
\* original no batch has processed is as at the start, and one that batches
\* have processed holds its first text, then fragments, the last one last
ReplaceKeepsEarlier ==
    /\ DOMAIN fs = DOMAIN session.origin
    /\ \A p \in DOMAIN fs :
          IF p \in DOMAIN session.written
          THEN LET first == SheetOf(session.origin[p])
                   last  == session.written[p]
                   sheet == SheetOf(fs[p])
               IN  /\ fs[p].valid
                   /\ Len(sheet) >= Len(first) + Len(last)
                   /\ SubSeq(sheet, 1, Len(first)) = first
                   /\ EndsWith(sheet, last)
          ELSE fs[p] = session.origin[p]

\* a pass of a 'replace' batch leaves the file as one more application of
\* this batch's fragment to what the file held before the pass
ReplaceAppends ==
    \A p \in DOMAIN fs :
        fs'[p] # fs[p] =>
            /\ output_mode = "replace"
            /\ fs'[p] \in Results(fs[p], << css_content(modification_type,
                                                        margin_size) >>)
            /\ SheetOf(fs'[p]) = SheetOf(fs[p]) \o css_content(modification_type,
                                                               margin_size)

=============================================================================
